---------------------------- MODULE Spec2Model ----------------------------
(***************************************************************************)
(* A model of src/generate_data.py, the synthetic e-commerce generator:    *)
(* the catalog and population loops, the per-session funnel of             *)
(* make_events, the order materializer make_orders, and the main script    *)
(* that calls them in turn and writes each table with to_csv.              *)
(*                                                                         *)
(* Time is in whole seconds since START_DATE.  Money is in ticks of        *)
(* 1/10000 dollar (100 ticks = 1 cent), so that round(x, 2) has work to    *)
(* do.  A call of random.random() in a comparison is a roll in hundredths. *)
(* The columns no function of the generator reads back and no property     *)
(* below is about (product_name, category, brand, department, age, gender, *)
(* device_type, browser, uri) are left out of the rows.                    *)
(*                                                                         *)
(* The pseudo-random generators are seeded but their streams are not       *)
(* modelled: every draw is a choice from the sample points a               *)
(* specification's grid gives for that source.                             *)
(***************************************************************************)
EXTENDS Integers, Sequences, FiniteSets, TLC

VARIABLES
    pc,           \* position of the run in the main script / the called function
    n_products,   \* make_products(n)
    n_users,      \* make_users(n)
    products,     \* products table (rows in product_id order)
    users,        \* users table
    events,       \* make_events: records, then the events table
    event_id,     \* make_events: next event_id
    session_id,   \* make_events: next session_id
    ui,           \* make_events: number of users the outer loop has taken
    n_left,       \* make_events: sessions of the current user still to simulate
    t,            \* make_events: clock of the session being simulated
    prod,         \* make_events: product bound to the session being simulated
    purchases,    \* make_orders: the purchase rows, sorted by created_at
    oi,           \* make_orders: number of purchase rows the loop has taken
    orders,       \* orders table
    order_items,  \* order_items table
    order_id,     \* make_orders: next order_id
    item_id,      \* make_orders: next order_item_id
    written,      \* the csv files persisted so far
    error         \* the exception that ended the run, or "none"

vars == <<pc, n_products, n_users, products, users, events, event_id,
          session_id, ui, n_left, t, prod, purchases, oi, orders,
          order_items, order_id, item_id, written, error>>

genVars    == <<n_products, n_users, products, users>>
eventVars  == <<events, event_id, session_id, ui, n_left, t, prod>>
orderVars  == <<purchases, oi, orders, order_items, order_id, item_id>>

----------------------------------------------------------------------------
(* Bounds of the model.                                                    *)

MaxProducts == 3
FunnelProducts == 2
MaxUsers == 2

----------------------------------------------------------------------------
(* Program constants.                                                      *)

None == -1
Day == 86400
START_DATE == 0
END_DATE == 730
SignupMargin == 30
ActiveDays == 365
ExtendDays == 14

COUNTRIES == {"United States", "United Kingdom", "Germany", "France",
              "Australia", "Canada"}
TRAFFIC_SOURCES == {"Organic", "Search", "Email", "Facebook", "Display"}
EVENT_TYPES == <<"home", "category", "product", "cart", "purchase">>
ORDER_STATUSES == {"Complete", "Returned", "Cancelled", "Shipped", "Processing"}
ShippedStatuses == {"Complete", "Returned", "Shipped"}
ItemCounts == {1, 2, 3, 4}

BOUNCE == 35
BASE_HOME_TO_CAT == 52
BASE_CAT_TO_PROD == 59
BASE_PROD_TO_CART == 17

CART_TO_PURCHASE(traffic) ==
    CASE traffic = "Email"    -> 68
      [] traffic = "Organic"  -> 60
      [] traffic = "Search"   -> 53
      [] traffic = "Facebook" -> 38
      [] traffic = "Display"  -> 28

PriceFloor == 99900
PriceCap == 4999900

----------------------------------------------------------------------------
(* Sample points.  A grid gives, for each random source, the points a      *)
(* specification draws from: g.ends (g.reals) says whether an integer      *)
(* (real) range is sampled at both ends or at its low end only, g.signup   *)
(* and g.fracs the numerators (over FracDen) of random.random() in the     *)
(* rand_date of a user's creation and of a session start, g.poisson the    *)
(* counts, g.base the log-normal bases in ticks, g.traffic the traffic     *)
(* sources, g.status the order statuses.                                   *)

FracDen == 2

\* random.random() compared with a probability: hundredths on both sides of
\* every threshold of the funnel
Rolls == {0, 16, 17, 27, 28, 34, 35, 37, 38, 51, 52, 53, 58, 59, 60, 67, 68, 99}

RandInt(g, lo, hi) == IF g.ends THEN {lo, hi} ELSE {lo}

\* np.random.uniform(lo, hi), in hundredths
Uniform(g, lo, hi) == IF g.reals THEN {lo, hi} ELSE {lo}

\* the accumulated rounding error of a sum of doubles, in ticks
FloatErr == {-1, 0, 1}

GridLow == [ends |-> FALSE, reals |-> FALSE, signup |-> {0}, fracs |-> {0},
            poisson |-> {1}, base |-> {366000},
            traffic |-> {"Email", "Display"},
            status |-> {"Returned", "Processing"},
            country |-> {"United States"}, state |-> {"CA"}]
GridEvents == [ends |-> TRUE, reals |-> FALSE, signup |-> {1}, fracs |-> {0, 1},
               poisson |-> {0, 2}, base |-> {366000},
               traffic |-> TRAFFIC_SOURCES, status |-> ORDER_STATUSES,
               country |-> {"United States"}, state |-> {"CA"}]
GridOrders == [ends |-> TRUE, reals |-> FALSE, signup |-> {0}, fracs |-> {0, 1},
               poisson |-> {1}, base |-> {366000},
               traffic |-> {"Email", "Display"}, status |-> ORDER_STATUSES,
               country |-> {"United States"}, state |-> {"CA"}]

----------------------------------------------------------------------------
(* Helpers.                                                                *)

Max(a, b) == IF a >= b THEN a ELSE b
Min(a, b) == IF a <= b THEN a ELSE b

\* round(x, 2) of a non-negative amount x given in ticks: the nearest whole
\* cent, an exact tie going to the even cent
Round2(x) ==
    LET q == x \div 100
        r == x % 100
    IN  IF r < 50 THEN 100 * q
        ELSE IF r > 50 THEN 100 * (q + 1)
        ELSE IF q % 2 = 0 THEN 100 * q ELSE 100 * (q + 1)

\* rand_date(start, end) with random.random() = k / FracDen
rand_date(start, end, k) == start + (k * (end - start)) \div FracDen


----------------------------------------------------------------------------
(* make_products and make_users: one loop iteration each.                  *)

\* the price is capped but not floored
ProductNoFloor(i, base, u) ==
    LET retail_price == Round2(Min(PriceCap, base))
    IN  [product_id   |-> i,
         retail_price |-> retail_price,
         cost         |-> Round2((retail_price * u) \div 100)]

\* the ids count from 0, as with range(n)
ProductFromZero(i, base, u) ==
    LET retail_price == Round2(Max(PriceFloor, Min(PriceCap, base)))
    IN  [product_id   |-> i - 1,
         retail_price |-> retail_price,
         cost         |-> Round2((retail_price * u) \div 100)]

\* the row make_products appends for id i, from the log-normal base (ticks)
\* and the cost multiplier u (hundredths)
Product(i, base, u) ==
    LET retail_price == Round2(Max(PriceFloor, Min(PriceCap, base)))
    IN  [product_id   |-> i,
         retail_price |-> retail_price,
         cost         |-> Round2((retail_price * u) \div 100)]

\* None in a column of strings
NoState == "None"

\* a state is drawn for every country
StateAlways(country, pick) == pick

\* random.choice(US_STATES) if country == "United States" else None
State(country, pick) == IF country = "United States" THEN pick ELSE NoState

\* the row make_users appends for id i
User(i, country, pick, traffic, k) ==
    [user_id        |-> i,
     country        |-> country,
     state          |-> State(country, pick),
     traffic_source |-> traffic,
     created_at     |-> rand_date(START_DATE * Day,
                                  (END_DATE - SignupMargin) * Day, k)]

MakeProductsRow(g) ==
    /\ pc = "products"
    /\ Len(products) < n_products
    /\ \E base \in g.base, u \in Uniform(g, 35, 60) :
          products' = Append(products, Product(Len(products) + 1, base, u))
    /\ UNCHANGED <<pc, n_products, n_users, users, eventVars, orderVars,
                   written, error>>

MakeUsersRow(g) ==
    /\ pc = "users"
    /\ Len(users) < n_users
    /\ \E country \in g.country, pick \in g.state, traffic \in g.traffic,
          k \in g.signup :
          users' = Append(users,
                          User(Len(users) + 1, country, pick, traffic, k))
    /\ UNCHANGED <<pc, n_products, n_users, products, eventVars, orderVars,
                   written, error>>

----------------------------------------------------------------------------
(* make_events: the session funnel.                                        *)

user == users[ui]

user_start == user.created_at

user_end ==
    LET e == Min(user_start + ActiveDays * Day, END_DATE * Day)
    IN  IF user_start >= e THEN user_start + ExtendDays * Day ELSE e

\* the row add_event appends
add_event(etype, prod_id) ==
    [event_id       |-> event_id,
     session_id     |-> session_id,
     user_id        |-> user.user_id,
     event_type     |-> etype,
     created_at     |-> t',
     traffic_source |-> user.traffic_source,
     product_id     |-> prod_id]

\* session_id += 1 and the next iteration of the session loop, or of the
\* user loop when the sessions of this user are done
NextSession ==
    /\ session_id' = session_id + 1
    /\ n_left' = n_left - 1
    /\ pc' = IF n_left - 1 > 0 THEN "session" ELSE "events"

Emit(etype, prod_id) ==
    /\ events' = Append(events, add_event(etype, prod_id))
    /\ event_id' = event_id + 1

Halt ==
    /\ NextSession
    /\ UNCHANGED <<events, event_id, t, prod>>

\* the session count is the Poisson draw itself, without the floor of 1
NextUserNoFloor(g) ==
    /\ pc = "events"
    /\ ui < Len(users)
    /\ ui' = ui + 1
    /\ \E p \in g.poisson :
          /\ n_left' = p
          /\ pc' = IF p > 0 THEN "session" ELSE "events"
    /\ UNCHANGED <<genVars, events, event_id, session_id, t, prod, orderVars,
                   written, error>>

NextUser(g) ==
    /\ pc = "events"
    /\ ui < Len(users)
    /\ ui' = ui + 1
    /\ \E p \in g.poisson : n_left' = Max(1, p)
    /\ pc' = "session"
    /\ UNCHANGED <<genVars, events, event_id, session_id, t, prod, orderVars,
                   written, error>>

StartSession(g) ==
    /\ pc = "session"
    /\ \E k \in g.fracs : t' = rand_date(user_start, user_end, k)
    /\ Emit("home", None)
    /\ pc' = "bounce"
    /\ UNCHANGED <<genVars, session_id, ui, n_left, prod, orderVars, written,
                   error>>

\* the bounce path goes on to the next session without session_id += 1
BounceKeepsId ==
    /\ pc = "bounce"
    /\ \E r \in Rolls :
          IF r < BOUNCE
          THEN /\ n_left' = n_left - 1
               /\ pc' = IF n_left - 1 > 0 THEN "session" ELSE "events"
               /\ UNCHANGED <<events, event_id, session_id, t, prod>>
          ELSE /\ pc' = "to_category"
               /\ UNCHANGED <<events, event_id, session_id, n_left, t, prod>>
    /\ UNCHANGED <<genVars, ui, orderVars, written, error>>

Bounce ==
    /\ pc = "bounce"
    /\ \E r \in Rolls :
          IF r < BOUNCE
          THEN Halt
          ELSE /\ pc' = "to_category"
               /\ UNCHANGED <<events, event_id, session_id, n_left, t, prod>>
    /\ UNCHANGED <<genVars, ui, orderVars, written, error>>

\* the product stage runs whether or not the category stage was reached
ToCategoryFlat(g) ==
    /\ pc = "to_category"
    /\ \E r \in Rolls :
          IF r < BASE_HOME_TO_CAT
          THEN /\ \E d \in RandInt(g, 10, 90) : t' = t + d
               /\ Emit("category", None)
               /\ pc' = "to_product"
               /\ UNCHANGED <<session_id, n_left, prod>>
          ELSE /\ pc' = "to_product"
               /\ UNCHANGED <<events, event_id, session_id, n_left, t, prod>>
    /\ UNCHANGED <<genVars, ui, orderVars, written, error>>

ToCategory(g) ==
    /\ pc = "to_category"
    /\ \E r \in Rolls :
          IF r < BASE_HOME_TO_CAT
          THEN /\ \E d \in RandInt(g, 10, 90) : t' = t + d
               /\ Emit("category", None)
               /\ pc' = "to_product"
               /\ UNCHANGED <<session_id, n_left, prod>>
          ELSE Halt
    /\ UNCHANGED <<genVars, ui, orderVars, written, error>>

ToProduct(g) ==
    /\ pc = "to_product"
    /\ \E r \in Rolls :
          IF r < BASE_CAT_TO_PROD
          THEN /\ \E d \in RandInt(g, 15, 120) : t' = t + d
               /\ \E row \in 1..Len(products) :
                     prod' = products[row].product_id
               /\ Emit("product", prod')
               /\ pc' = "to_cart"
               /\ UNCHANGED <<session_id, n_left>>
          ELSE Halt
    /\ UNCHANGED <<genVars, ui, orderVars, written, error>>

\* the cart event is stamped without advancing the clock
ToCartNoDelay(g) ==
    /\ pc = "to_cart"
    /\ \E r \in Rolls :
          IF r < BASE_PROD_TO_CART
          THEN /\ t' = t
               /\ Emit("cart", prod)
               /\ pc' = "to_purchase"
               /\ UNCHANGED <<session_id, n_left, prod>>
          ELSE Halt
    /\ UNCHANGED <<genVars, ui, orderVars, written, error>>

\* the cart stage samples a product of its own
ToCartResample(g) ==
    /\ pc = "to_cart"
    /\ \E r \in Rolls :
          IF r < BASE_PROD_TO_CART
          THEN /\ \E d \in RandInt(g, 10, 60) : t' = t + d
               /\ \E row \in 1..Len(products) :
                     prod' = products[row].product_id
               /\ Emit("cart", prod')
               /\ pc' = "to_purchase"
               /\ UNCHANGED <<session_id, n_left>>
          ELSE Halt
    /\ UNCHANGED <<genVars, ui, orderVars, written, error>>

ToCart(g) ==
    /\ pc = "to_cart"
    /\ \E r \in Rolls :
          IF r < BASE_PROD_TO_CART
          THEN /\ \E d \in RandInt(g, 10, 60) : t' = t + d
               /\ Emit("cart", prod)
               /\ pc' = "to_purchase"
               /\ UNCHANGED <<session_id, n_left, prod>>
          ELSE Halt
    /\ UNCHANGED <<genVars, ui, orderVars, written, error>>

ToPurchase(g) ==
    /\ pc = "to_purchase"
    /\ \E r \in Rolls :
          IF r < CART_TO_PURCHASE(user.traffic_source)
          THEN /\ \E d \in RandInt(g, 30, 300) : t' = t + d
               /\ Emit("purchase", prod)
               /\ NextSession
               /\ UNCHANGED prod
          ELSE Halt
    /\ UNCHANGED <<genVars, ui, orderVars, written, error>>

ReturnEvents ==
    /\ pc = "events"
    /\ ui = Len(users)
    /\ pc' = "write_events"
    /\ UNCHANGED <<genVars, eventVars, orderVars, written, error>>

----------------------------------------------------------------------------
(* make_orders: the order materializer.                                    *)

IsPurchase(ev) == ev.event_type = "purchase"

\* events_df[event_type == "purchase"].sort_values("created_at"): the rows in
\* ascending created_at; the sort is not stable, so rows with equal
\* created_at come in any order
\* the purchase rows as the events table has them, not sorted
UnsortedPurchases(evs) == { SelectSeq(evs, IsPurchase) }

SortedPurchases(evs) ==
    LET rows == SelectSeq(evs, IsPurchase)
        n    == Len(rows)
    IN  { [i \in 1..n |-> rows[p[i]]] :
            p \in { q \in [1..n -> 1..n] :
                      /\ \A i, j \in 1..n : i # j => q[i] # q[j]
                      /\ \A i, j \in 1..n :
                            i < j => rows[q[i]].created_at
                                       <= rows[q[j]].created_at } }

\* products_df.sample(n): n rows of the catalog, drawn without replacement
\* (the default replace=False), in drawn order
Sample(n) ==
    { s \in [1..n -> 1..Len(products)] :
        \A i, j \in 1..n : i # j => s[i] # s[j] }

\* the draws of one pass of the item loop: the price multiplier, the days
\* to shipping (drawn only for a shipped status) and the days to the return
\* (drawn only for a returned one)
ItemDraws(g, status) ==
    Uniform(g, 85, 100)
      \X (IF status \in ShippedStatuses THEN RandInt(g, 1, 4) ELSE {0})
      \X (IF status = "Returned" THEN RandInt(g, 3, 14) ELSE {0})

SalePrice(p, u) == Round2((p.retail_price * u) \div 100)

ShippedAt(created_at, status, days) ==
    IF status \in ShippedStatuses THEN created_at + days * Day ELSE None

\* every shipped item gets a return date
ReturnedAtShipped(shipped_at, status, days) ==
    IF shipped_at # None THEN shipped_at + days * Day ELSE None

ReturnedAt(shipped_at, status, days) ==
    IF status = "Returned" /\ shipped_at # None
    THEN shipped_at + days * Day
    ELSE None

\* the k-th order_items row of the order made from purchase row ev
Item(k, ev, status, p, d) ==
    LET shipped_at == ShippedAt(ev.created_at, status, d[2])
    IN  [order_item_id |-> item_id + k - 1,
         order_id      |-> order_id,
         user_id       |-> ev.user_id,
         product_id    |-> p.product_id,
         status        |-> status,
         sale_price    |-> SalePrice(p, d[1]),
         created_at    |-> ev.created_at,
         shipped_at    |-> shipped_at,
         returned_at   |-> ReturnedAt(shipped_at, status, d[3])]

RECURSIVE SumSale(_)
SumSale(items) ==
    IF items = << >> THEN 0
    ELSE items[1].sale_price + SumSale(Tail(items))

\* total_sale_price = sale_price in place of +=: the last item alone
AccumulateLast(items, err) == items[Len(items)].sale_price + err

\* total_sale_price as the loop accumulates it: a sum of doubles, exact up
\* to the rounding error err
Accumulate(items, err) == SumSale(items) + err

Order(ev, status, n_items, total_sale_price) ==
    [order_id         |-> order_id,
     user_id          |-> ev.user_id,
     status           |-> status,
     num_of_item      |-> n_items,
     total_sale_price |-> Round2(total_sale_price),
     created_at       |-> ev.created_at,
     traffic_source   |-> ev.traffic_source]

BeginOrders ==
    /\ pc = "orders"
    /\ purchases' \in SortedPurchases(events)
    /\ oi' = 0
    /\ orders' = << >>
    /\ order_items' = << >>
    /\ order_id' = 1
    /\ item_id' = 1
    /\ pc' = "order_loop"
    /\ UNCHANGED <<genVars, eventVars, written, error>>

\* one pass of the loop over the purchase rows; sample raises ValueError
\* when it is asked for more rows than the catalog holds
MaterializeOrder(g) ==
    /\ pc = "order_loop"
    /\ oi < Len(purchases)
    /\ \E status \in g.status, n_items \in ItemCounts :
          IF n_items > Len(products)
          THEN /\ pc' = "failed"
               /\ error' = "ValueError"
               /\ UNCHANGED orderVars
          ELSE /\ \E prods \in Sample(n_items),
                     d \in [1..n_items -> ItemDraws(g, status)],
                     err \in (IF n_items = 1 THEN {0} ELSE FloatErr) :
                     LET ev    == purchases[oi + 1]
                         items == [k \in 1..n_items |->
                                     Item(k, ev, status, products[prods[k]],
                                          d[k])]
                     IN  /\ order_items' = order_items \o items
                         /\ orders' =
                              Append(orders,
                                     Order(ev, status, n_items,
                                           Accumulate(items, err)))
               /\ item_id' = item_id + n_items
               /\ order_id' = order_id + 1
               /\ oi' = oi + 1
               /\ UNCHANGED <<pc, purchases, error>>
    /\ UNCHANGED <<genVars, eventVars, written>>

ReturnOrders ==
    /\ pc = "order_loop"
    /\ oi = Len(purchases)
    /\ pc' = "write_orders"
    /\ UNCHANGED <<genVars, eventVars, orderVars, written, error>>

----------------------------------------------------------------------------
(* The main script: each table is written as soon as it is made.  A        *)
(* failing to_csv raises OSError and ends the run; what it leaves of the   *)
(* file it was writing is not counted as written.                          *)

ToCsv(name, next) ==
    \/ /\ written' = written \cup {name}
       /\ pc' = next
       /\ UNCHANGED error
    \/ /\ pc' = "failed"
       /\ error' = "OSError"
       /\ UNCHANGED written

WriteProducts ==
    /\ pc = "products"
    /\ Len(products) = n_products
    /\ ToCsv("products", "users")
    /\ UNCHANGED <<genVars, eventVars, orderVars>>

WriteUsers ==
    /\ pc = "users"
    /\ Len(users) = n_users
    /\ ToCsv("users", "events")
    /\ UNCHANGED <<genVars, eventVars, orderVars>>

WriteEvents ==
    /\ pc = "write_events"
    /\ ToCsv("events", "orders")
    /\ UNCHANGED <<genVars, eventVars, orderVars>>

WriteOrders ==
    /\ pc = "write_orders"
    /\ ToCsv("orders", "write_order_items")
    /\ UNCHANGED <<genVars, eventVars, orderVars>>

WriteOrderItems ==
    /\ pc = "write_order_items"
    /\ ToCsv("order_items", "done")
    /\ UNCHANGED <<genVars, eventVars, orderVars>>

Blank ==
    /\ events = << >>
    /\ event_id = 1
    /\ session_id = 1
    /\ ui = 0
    /\ n_left = 0
    /\ t = 0
    /\ prod = None
    /\ purchases = << >>
    /\ oi = 0
    /\ orders = << >>
    /\ order_items = << >>
    /\ order_id = 1
    /\ item_id = 1
    /\ written = {}
    /\ error = "none"

Init ==
    /\ pc = "products"
    /\ n_products \in 1..MaxProducts
    /\ n_users \in 1..MaxUsers
    /\ products = << >>
    /\ users = << >>
    /\ Blank

Next ==
    \/ MakeProductsRow(GridLow)
    \/ WriteProducts
    \/ MakeUsersRow(GridLow)
    \/ WriteUsers
    \/ NextUser(GridLow)
    \/ StartSession(GridLow)
    \/ Bounce
    \/ ToCategory(GridLow)
    \/ ToProduct(GridLow)
    \/ ToCart(GridLow)
    \/ ToPurchase(GridLow)
    \/ ReturnEvents
    \/ WriteEvents
    \/ BeginOrders
    \/ MaterializeOrder(GridLow)
    \/ ReturnOrders
    \/ WriteOrders
    \/ WriteOrderItems

Spec == Init /\ [][Next]_vars

----------------------------------------------------------------------------
(* Inputs of the functions when they are checked on their own.             *)

InputBase(i) ==
    CASE i % 3 = 1 -> 366000
      [] i % 3 = 2 -> 50000
      [] OTHER     -> 60000000

Catalog(n) == [i \in 1..n |-> Product(i, InputBase(i), 35 + 25 * (i % 2))]

UserInputs(n, g) ==
    { [i \in 1..n |-> User(i, f[i][1], f[i][2], f[i][3], f[i][4])] :
        f \in [1..n -> g.country \X g.state \X g.traffic \X g.signup] }

InitEvents ==
    /\ pc = "events"
    /\ n_products \in 1..FunnelProducts
    /\ n_users = 1
    /\ products = Catalog(n_products)
    /\ users \in UserInputs(n_users, GridEvents)
    /\ Blank

NextEvents ==
    \/ NextUser(GridEvents)
    \/ StartSession(GridEvents)
    \/ Bounce
    \/ ToCategory(GridEvents)
    \/ ToProduct(GridEvents)
    \/ ToCart(GridEvents)
    \/ ToPurchase(GridEvents)
    \/ ReturnEvents

SpecEvents == InitEvents /\ [][NextEvents]_vars

\* the rows make_events emits for a session that reaches the first depth
\* stages, every delay at the low end of its range
StageOffset == <<0, 10, 25, 35, 65>>

SessionRows(sid, first_id, u, start, depth, pid) ==
    [k \in 1..depth |->
        [event_id       |-> first_id + k - 1,
         session_id     |-> sid,
         user_id        |-> u.user_id,
         event_type     |-> EVENT_TYPES[k],
         created_at     |-> start + StageOffset[k],
         traffic_source |-> u.traffic_source,
         product_id     |-> IF k >= 3 THEN pid ELSE None]]

\* the window make_events draws the session starts of user u from
Window(u) ==
    LET s == u.created_at
        e == Min(s + ActiveDays * Day, END_DATE * Day)
    IN  <<s, IF s >= e THEN s + ExtendDays * Day ELSE e>>

\* events tables of n sessions, one per user, each ending at the cart or at
\* the purchase.  InitOrders gives make_orders a table of one session with
\* any catalog, or a table of two sessions with a catalog of at most two
\* products.
RECURSIVE EventInputs(_, _, _)
EventInputs(us, n, g) ==
    IF n = 0 THEN { << >> }
    ELSE { evs \o SessionRows(n, Len(evs) + 1, us[n],
                              rand_date(Window(us[n])[1], Window(us[n])[2], k),
                              depth, 1) :
             evs \in EventInputs(us, n - 1, g),
             k \in g.fracs, depth \in {4, 5} }

InitOrders ==
    /\ pc = "orders"
    /\ n_products \in 1..MaxProducts
    /\ n_users \in {1, 2}
    /\ n_users = 2 => n_products <= 2
    /\ products = Catalog(n_products)
    /\ users = [i \in 1..n_users |->
                  User(i, "United States", "CA",
                       IF i % 2 = 1 THEN "Email" ELSE "Display", 0)]
    /\ events \in EventInputs(users, n_users, GridOrders)
    /\ event_id = Len(events) + 1
    /\ session_id = n_users + 1
    /\ ui = n_users
    /\ n_left = 0
    /\ t = 0
    /\ prod = None
    /\ purchases = << >>
    /\ oi = 0
    /\ orders = << >>
    /\ order_items = << >>
    /\ order_id = 1
    /\ item_id = 1
    /\ written = {}
    /\ error = "none"

NextOrders ==
    \/ BeginOrders
    \/ MaterializeOrder(GridOrders)
    \/ ReturnOrders

SpecOrders == InitOrders /\ [][NextOrders]_vars

\* One session of make_events as a function of its draws dr: the fraction
\* dr.k of rand_date, the rolls dr.bounce, dr.cat, dr.prd, dr.cart and
\* dr.pur of the five tests in the order the code makes them, the delays
\* dr.d (a sequence of four) and the catalog row dr.row of sample(1).

\* TRAFFIC_CONV_MULTIPLIER, in hundredths; make_events does not use it
TRAFFIC_CONV_MULTIPLIER(traffic) ==
    CASE traffic = "Email"    -> 145
      [] traffic = "Organic"  -> 120
      [] traffic = "Search"   -> 100
      [] traffic = "Facebook" -> 65
      [] traffic = "Display"  -> 45

\* the multiplier of the source scales the home -> category rate as well
DepthScaled(u, dr) ==
    IF dr.bounce < BOUNCE THEN 1
    ELSE IF ~(dr.cat < (BASE_HOME_TO_CAT
                          * TRAFFIC_CONV_MULTIPLIER(u.traffic_source))
                             \div 100) THEN 1
    ELSE IF ~(dr.prd < BASE_CAT_TO_PROD) THEN 2
    ELSE IF ~(dr.cart < BASE_PROD_TO_CART) THEN 3
    ELSE IF ~(dr.pur < CART_TO_PURCHASE(u.traffic_source)) THEN 4
    ELSE 5

\* the number of events the session of user u emits: the nested ifs
Depth(u, dr) ==
    IF dr.bounce < BOUNCE THEN 1
    ELSE IF ~(dr.cat < BASE_HOME_TO_CAT) THEN 1
    ELSE IF ~(dr.prd < BASE_CAT_TO_PROD) THEN 2
    ELSE IF ~(dr.cart < BASE_PROD_TO_CART) THEN 3
    ELSE IF ~(dr.pur < CART_TO_PURCHASE(u.traffic_source)) THEN 4
    ELSE 5

\* the clock t at the k-th event of a session that starts at start
RECURSIVE ClockAt(_, _, _)
ClockAt(start, d, k) ==
    IF k = 1 THEN start ELSE ClockAt(start, d, k - 1) + d[k - 1]

\* the rows the session sid of user u appends, its first event_id first_id
Simulate(u, sid, first_id, dr) ==
    LET start == rand_date(Window(u)[1], Window(u)[2], dr.k)
    IN  [k \in 1..Depth(u, dr) |->
           [event_id       |-> first_id + k - 1,
            session_id     |-> sid,
            user_id        |-> u.user_id,
            event_type     |-> EVENT_TYPES[k],
            created_at     |-> ClockAt(start, dr.d, k),
            traffic_source |-> u.traffic_source,
            product_id     |-> IF k >= 3 THEN products[dr.row].product_id
                               ELSE None]]

\* sample points of a roll that is compared with the probability p: the
\* two ends and the two hundredths on either side of p
RollsAround(p) == {0, p - 1, p, 99}

\* make_events on two users of one session each (poisson draws of 0 or 1),
\* in the runs where the second session gets, draw for draw, the values the
\* first one got; a draw neither session comes to is 0
TwinSessions(g) ==
    /\ pc = "events"
    /\ ui = 0
    /\ Len(users) = 2
    /\ \E k \in g.fracs, rb \in RollsAround(BOUNCE) :
       LET go1 == ~(rb < BOUNCE)
       IN
       \E rc \in (IF go1 THEN RollsAround(BASE_HOME_TO_CAT) ELSE {0}) :
       LET go2 == go1 /\ rc < BASE_HOME_TO_CAT
       IN
       \E rp \in (IF go2 THEN RollsAround(BASE_CAT_TO_PROD) ELSE {0}) :
       LET go3 == go2 /\ rp < BASE_CAT_TO_PROD
       IN
       \E ra \in (IF go3 THEN RollsAround(BASE_PROD_TO_CART) ELSE {0}) :
       LET go4 == go3 /\ ra < BASE_PROD_TO_CART
       IN
       \E ru \in (IF go4 THEN Rolls ELSE {0}) :
       \E d \in (IF go2 THEN RandInt(g, 10, 90) ELSE {0})
                  \X (IF go3 THEN RandInt(g, 15, 120) ELSE {0})
                  \X (IF go4 THEN RandInt(g, 10, 60) ELSE {0})
                  \X (IF go4 THEN RandInt(g, 30, 300) ELSE {0}),
          row \in (IF go3 THEN 1..Len(products) ELSE {1}) :
          LET dr == [k |-> k, bounce |-> rb, cat |-> rc, prd |-> rp,
                     cart |-> ra, pur |-> ru, d |-> d, row |-> row]
              s1 == Simulate(users[1], 1, 1, dr)
              s2 == Simulate(users[2], 2, Len(s1) + 1, dr)
          IN  /\ events' = s1 \o s2
              /\ event_id' = Len(s1) + Len(s2) + 1
              /\ t' = s2[Len(s2)].created_at
              /\ prod' = IF Len(s2) >= 3 THEN s2[3].product_id
                         ELSE IF Len(s1) >= 3 THEN s1[3].product_id
                         ELSE None
    /\ session_id' = 3
    /\ ui' = 2
    /\ n_left' = 0
    /\ UNCHANGED <<pc, genVars, orderVars, written, error>>

GridTwins == [ends |-> TRUE, reals |-> FALSE, signup |-> {1}, fracs |-> {1},
              poisson |-> {1}, base |-> {366000},
              traffic |-> TRAFFIC_SOURCES, status |-> {"Complete"},
              country |-> {"United States"}, state |-> {"CA"}]

InitTwins ==
    /\ pc = "events"
    /\ n_products = FunnelProducts
    /\ n_users = 2
    /\ products = Catalog(n_products)
    /\ \E a, b \in GridTwins.traffic, k \in GridTwins.signup :
          /\ a # b
          /\ users = <<User(1, "United States", "CA", a, k),
                       User(2, "United States", "CA", b, k)>>
    /\ Blank

NextTwins ==
    \/ TwinSessions(GridTwins)
    \/ ReturnEvents

SpecTwins == InitTwins /\ [][NextTwins]_vars

\* make_events on a users table of make_users, one to MaxUsers users of one
\* or two sessions each
GridSessions == [ends |-> FALSE, reals |-> FALSE, signup |-> {0}, fracs |-> {0},
                 poisson |-> {0, 1, 2}, base |-> {366000},
                 traffic |-> {"Search"}, status |-> {"Complete"},
                 country |-> {"United States"}, state |-> {"CA"}]

InitSessions ==
    /\ pc = "events"
    /\ n_products = 1
    /\ n_users \in 1..MaxUsers
    /\ products = Catalog(n_products)
    /\ users \in UserInputs(n_users, GridSessions)
    /\ Blank

NextSessions ==
    \/ NextUser(GridSessions)
    \/ StartSession(GridSessions)
    \/ Bounce
    \/ ToCategory(GridSessions)
    \/ ToProduct(GridSessions)
    \/ ToCart(GridSessions)
    \/ ToPurchase(GridSessions)
    \/ ReturnEvents

SpecSessions == InitSessions /\ [][NextSessions]_vars

\* the main script for one user of one or two sessions, every catalog size
GridCatalog == [ends |-> FALSE, reals |-> FALSE, signup |-> {0}, fracs |-> {0},
                poisson |-> {1, 2}, base |-> {366000},
                traffic |-> {"Email"}, status |-> {"Complete"},
                country |-> {"United States"}, state |-> {"CA"}]

InitCatalog ==
    /\ pc = "products"
    /\ n_products \in 1..MaxProducts
    /\ n_users = 1
    /\ products = << >>
    /\ users = << >>
    /\ Blank

NextCatalog ==
    \/ MakeProductsRow(GridCatalog)
    \/ WriteProducts
    \/ MakeUsersRow(GridCatalog)
    \/ WriteUsers
    \/ NextUser(GridCatalog)
    \/ StartSession(GridCatalog)
    \/ Bounce
    \/ ToCategory(GridCatalog)
    \/ ToProduct(GridCatalog)
    \/ ToCart(GridCatalog)
    \/ ToPurchase(GridCatalog)
    \/ ReturnEvents
    \/ WriteEvents
    \/ BeginOrders
    \/ MaterializeOrder(GridCatalog)
    \/ ReturnOrders
    \/ WriteOrders
    \/ WriteOrderItems

SpecCatalog == InitCatalog /\ [][NextCatalog]_vars

\* make_products alone: log-normal draws below the floor (5.00), at it,
\* between it and the next cent (9.9949 and the tie 9.9950), in the middle
\* (36.60 and the tie 36.605), under the cap (499.985), at it and far above
\* it, with the cost multiplier at both ends of its range
GridProducts == [ends |-> FALSE, reals |-> TRUE, signup |-> {0}, fracs |-> {0},
                 poisson |-> {1},
                 base |-> {50000, 99900, 99949, 99950, 366000, 366050,
                           4999850, 4999900, 60000000},
                 traffic |-> {"Search"}, status |-> {"Complete"},
                 country |-> {"United States"}, state |-> {"CA"}]

NextProducts ==
    \/ MakeProductsRow(GridProducts)
    \/ WriteProducts

SpecProducts == Init /\ [][NextProducts]_vars

\* make_users alone: every country, the first and the last of US_STATES
GridUsers == [ends |-> FALSE, reals |-> FALSE, signup |-> {0, 1}, fracs |-> {0},
              poisson |-> {1}, base |-> {366000},
              traffic |-> {"Search", "Email"}, status |-> {"Complete"},
              country |-> COUNTRIES, state |-> {"CA", "WI"}]

InitUsers ==
    /\ pc = "users"
    /\ n_products = 1
    /\ n_users \in 1..MaxUsers
    /\ products = Catalog(n_products)
    /\ users = << >>
    /\ Blank

NextUsers ==
    \/ MakeUsersRow(GridUsers)
    \/ WriteUsers

SpecUsers == InitUsers /\ [][NextUsers]_vars

\* make_events called on users of any creation time: 30, 14 and 5 days
\* before the end of the dataset, one second before it, at it, and a day
\* after it
GridWindow == [ends |-> FALSE, reals |-> FALSE, signup |-> {0}, fracs |-> {0, 1},
               poisson |-> {1}, base |-> {366000},
               traffic |-> {"Search"}, status |-> {"Complete"},
               country |-> {"United States"}, state |-> {"CA"}]

LateCreated ==
    { (END_DATE - SignupMargin) * Day, (END_DATE - ExtendDays) * Day,
      (END_DATE - 5) * Day, END_DATE * Day - 1, END_DATE * Day,
      (END_DATE + 1) * Day }

LateUsers(n) ==
    { [i \in 1..n |-> [user_id        |-> i,
                       country        |-> "United States",
                       state          |-> "CA",
                       traffic_source |-> "Search",
                       created_at     |-> c[i]]] :
        c \in [1..n -> LateCreated] }

InitWindow ==
    /\ pc = "events"
    /\ n_products = 1
    /\ n_users \in {1, 2}
    /\ products = Catalog(n_products)
    /\ users \in LateUsers(n_users)
    /\ Blank

NextWindow ==
    \/ NextUser(GridWindow)
    \/ StartSession(GridWindow)
    \/ Bounce
    \/ ToCategory(GridWindow)
    \/ ToProduct(GridWindow)
    \/ ToCart(GridWindow)
    \/ ToPurchase(GridWindow)
    \/ ReturnEvents

SpecWindow == InitWindow /\ [][NextWindow]_vars

----------------------------------------------------------------------------
(* Sessions of the events table.                                           *)

InSession == pc \in {"bounce", "to_category", "to_product", "to_cart",
                     "to_purchase"}

RollStages == {"to_category", "to_product", "to_cart", "to_purchase"}

\* the ids of the sessions that have emitted an event
SessionIds(evs) == { evs[i].session_id : i \in 1..Len(evs) }

\* the rows of session sid, in emission order
RowsOf(evs, sid) ==
    LET Mine(ev) == ev.session_id = sid
    IN  SelectSeq(evs, Mine)

IsPrefix(a, b) == Len(a) <= Len(b) /\ SubSeq(b, 1, Len(a)) = a

\* the event types of every session spell a non-empty prefix of the funnel
FunnelPrefix ==
    \A sid \in SessionIds(events) :
       LET rows == RowsOf(events, sid)
       IN  /\ Len(rows) >= 1
           /\ Len(rows) <= Len(EVENT_TYPES)
           /\ rows[1].event_type = "home"
           /\ \A k \in 1..Len(rows) : rows[k].event_type = EVENT_TYPES[k]

\* a roll that fails (a funnel step that emits nothing) or a bounce ends the
\* session
FailedRollEnds ==
    /\ pc \in RollStages /\ events' = events => session_id' = session_id + 1
    /\ pc = "bounce" /\ pc' # "to_category" =>
          session_id' = session_id + 1 /\ events' = events

\* rows are only ever appended, and only to the session being simulated,
\* which has not ended: a session that has ended gets no further event
EndedSessionsFrozen ==
    /\ IsPrefix(events, events')
    /\ \A i \in 1..Len(events') :
          i > Len(events) => InSession \/ pc = "session"
    /\ \A i \in 1..Len(events') :
          i > Len(events) => events'[i].session_id = session_id
    /\ \A i \in 1..Len(events) : events[i].session_id <= session_id
    /\ ~(InSession \/ pc = "session") =>
          \A i \in 1..Len(events) : events[i].session_id < session_id
    /\ session_id' >= session_id

\* C1: in every session the event types, in emission order, are a non-empty
\* prefix of home, category, product, cart, purchase: the first event is home
\* and no later stage comes without every earlier one; a bounce or a failed
\* roll ends the session, and a session that has ended gets no further event.
C1_FunnelPrefix ==
    /\ []FunnelPrefix
    /\ [][FailedRollEnds /\ EndedSessionsFrozen]_vars

\* C1 witness: one session has bounced or failed at home and has ended, and
\* another has run the whole funnel to the purchase.
C1_Witness ==
    /\ pc = "events"
    /\ \E a, b \in SessionIds(events) :
          /\ Len(RowsOf(events, a)) = 1
          /\ Len(RowsOf(events, b)) = 5
          /\ a < b

\* the delay the claim gives for reaching stage k from stage k - 1
DelayRange(k) ==
    CASE k = 2 -> 10..90
      [] k = 3 -> 15..120
      [] k = 4 -> 10..60
      [] k = 5 -> 30..300

\* C8: within every session the timestamps grow strictly in stage order:
\* the home event is at the session start (the clock of the session is the
\* time of its last event), each later event comes after the previous one
\* by a whole number of seconds in the range of its transition, and a
\* purchase comes 65 to 570 seconds after the home event of its session.
C8_Timestamps ==
    /\ \A sid \in SessionIds(events) :
          LET rows == RowsOf(events, sid)
          IN  /\ \A k \in 2..Len(rows) :
                    /\ rows[k].created_at > rows[k - 1].created_at
                    /\ rows[k].created_at - rows[k - 1].created_at
                          \in DelayRange(k)
              /\ Len(rows) = 5 =>
                    rows[5].created_at - rows[1].created_at \in 65..570
    /\ InSession => events[Len(events)].created_at = t
    /\ pc = "bounce" =>
          /\ events[Len(events)].event_type = "home"
          /\ t >= user_start
          /\ t < user_end

\* C8 witness: a purchase 570 seconds after the home event of its session,
\* and one 65 seconds after it.
C8_Witness ==
    /\ pc = "events"
    /\ \E a, b \in SessionIds(events) :
          /\ Len(RowsOf(events, a)) = 5
          /\ Len(RowsOf(events, b)) = 5
          /\ RowsOf(events, a)[5].created_at
               - RowsOf(events, a)[1].created_at = 570
          /\ RowsOf(events, b)[5].created_at
               - RowsOf(events, b)[1].created_at = 65

\* C9: in every session the home and category events carry no product, and
\* the product, cart and purchase events all carry the one product sampled
\* at the product stage, which is a product of the catalog.
C9_OneProduct ==
    \A sid \in SessionIds(events) :
       LET rows == RowsOf(events, sid)
       IN  \A k \in 1..Len(rows) :
              IF rows[k].event_type \in {"home", "category"}
              THEN rows[k].product_id = None
              ELSE /\ \E row \in 1..Len(products) :
                         rows[k].product_id = products[row].product_id
                   /\ \A j \in 1..Len(rows) :
                         rows[j].event_type \in {"product", "cart", "purchase"}
                            => rows[j].product_id = rows[k].product_id

\* C9 witness: two sessions have reached the purchase, bound to different
\* products.
C9_Witness ==
    \E a, b \in SessionIds(events) :
       /\ Len(RowsOf(events, a)) = 5
       /\ Len(RowsOf(events, b)) = 5
       /\ RowsOf(events, a)[5].product_id = 1
       /\ RowsOf(events, b)[5].product_id = 2
       /\ RowsOf(events, b)[3].product_id = 2

----------------------------------------------------------------------------
(* The main script and the order materializer.                             *)

\* C2: a run writes all five tables or none: when the run has failed, no
\* table has been persisted.
C2_AllOrNothing == pc = "failed" => written = {}

\* the positions of the purchase rows in the events table
PurchaseRows == { i \in 1..Len(events) : IsPurchase(events[i]) }

InOrders == pc \in {"order_loop", "write_orders"}

\* C3: make_orders makes one order for each purchase event and no other:
\* order i comes from the i-th purchase event in ascending created_at, so
\* the order ids 1, 2, ... ascend with created_at, and every order has the
\* created_at, user_id and traffic_source of the purchase event it comes
\* from.
C3_OneOrderPerPurchase ==
    InOrders =>
       /\ Len(orders) = oi
       /\ Len(purchases) = Cardinality(PurchaseRows)
       /\ \A i \in PurchaseRows :
             Cardinality({ k \in 1..Len(purchases) :
                             purchases[k] = events[i] }) = 1
       /\ pc = "write_orders" => Len(orders) = Cardinality(PurchaseRows)
       /\ \A i \in 1..Len(orders) :
             /\ orders[i].order_id = i
             /\ orders[i].created_at = purchases[i].created_at
             /\ orders[i].user_id = purchases[i].user_id
             /\ orders[i].traffic_source = purchases[i].traffic_source
       /\ \A i, j \in 1..Len(orders) :
             i < j => orders[i].created_at <= orders[j].created_at

\* C3 witness: make_orders has returned two orders, the first from the
\* later session, whose purchase came first.
C3_Witness ==
    /\ pc = "write_orders"
    /\ Len(orders) = 2
    /\ orders[1].user_id = 2
    /\ orders[1].traffic_source = "Display"
    /\ orders[1].created_at < orders[2].created_at

\* the pass of the order loop whose sample is the rows tup of the catalog
SampledWith(n, tup) ==
    /\ MaterializeOrder(GridOrders)
    /\ Len(order_items') = Len(order_items) + n
    /\ \A k \in 1..n :
          order_items'[Len(order_items) + k].product_id
             = products[tup[k]].product_id

\* C4: the items of an order sample their products independently, with
\* replacement, from the whole catalog: for an order of n items every
\* n-tuple of products is a possible outcome, a tuple that names a product
\* twice included.  (Stated for the n the catalog can serve without
\* repeating a product.)
C4_WithReplacement ==
    pc = "order_loop" /\ oi < Len(purchases) =>
       \A n \in ItemCounts :
          n <= Len(products) =>
             \A tup \in [1..n -> 1..Len(products)] :
                ENABLED SampledWith(n, tup)

ItemsOf(id) == { k \in 1..Len(order_items) : order_items[k].order_id = id }

\* C5: make_orders has no failure mode: for every catalog of at least one
\* product it ends without an error, and every order has 1 to 4 items,
\* num_of_item being the number of order_items rows of that order.
C5_NoFailure ==
    /\ error = "none"
    /\ \A i \in 1..Len(orders) :
          /\ orders[i].num_of_item \in 1..4
          /\ orders[i].num_of_item = Cardinality(ItemsOf(orders[i].order_id))

\* C6: every order item has the status of its order; it has a shipped_at
\* exactly when the status is Complete, Returned or Shipped, 1 to 4 whole
\* days after created_at; it has a returned_at exactly when the status is
\* Returned, 3 to 14 whole days after shipped_at; so for a returned item
\* returned_at > shipped_at > created_at.
C6_ItemLifecycle ==
    \A k \in 1..Len(order_items) :
       LET it == order_items[k]
       IN  /\ \E i \in 1..Len(orders) :
                 /\ orders[i].order_id = it.order_id
                 /\ orders[i].status = it.status
           /\ \A i \in 1..Len(orders) :
                 orders[i].order_id = it.order_id =>
                    orders[i].status = it.status
           /\ it.shipped_at # None
                 <=> it.status \in {"Complete", "Returned", "Shipped"}
           /\ it.shipped_at # None =>
                 \E days \in 1..4 : it.shipped_at = it.created_at + days * Day
           /\ it.returned_at # None <=> it.status = "Returned"
           /\ it.returned_at # None =>
                 /\ \E days \in 3..14 :
                       it.returned_at = it.shipped_at + days * Day
                 /\ it.returned_at > it.shipped_at
                 /\ it.shipped_at > it.created_at

\* C6 witness: a returned item shipped 4 days after the order and returned
\* 14 days later, beside an item that was never shipped.
C6_Witness ==
    \E a, b \in 1..Len(order_items) :
       /\ order_items[a].status = "Returned"
       /\ order_items[a].shipped_at = order_items[a].created_at + 4 * Day
       /\ order_items[a].returned_at = order_items[a].shipped_at + 14 * Day
       /\ order_items[b].status = "Cancelled"
       /\ order_items[b].shipped_at = None

\* the sum of the sale_price of the first n order_items rows that carry
\* order_id id
RECURSIVE SaleSum(_, _)
SaleSum(id, n) ==
    IF n = 0 THEN 0
    ELSE SaleSum(id, n - 1)
           + (IF order_items[n].order_id = id
              THEN order_items[n].sale_price ELSE 0)

\* C7: the total_sale_price of every order is exactly the sum of the
\* sale_price of the order_items rows of that order, in whole cents.
C7_TotalIsSum ==
    \A i \in 1..Len(orders) :
       /\ orders[i].total_sale_price % 100 = 0
       /\ \A k \in ItemsOf(orders[i].order_id) :
             order_items[k].sale_price % 100 = 0
       /\ orders[i].total_sale_price \div 100
            = SaleSum(orders[i].order_id, Len(order_items)) \div 100

\* C7 witness: an order of three items at three different prices.
C7_Witness ==
    \E i \in 1..Len(orders) :
       /\ orders[i].num_of_item = 3
       /\ Cardinality({ order_items[k].sale_price :
                          k \in ItemsOf(orders[i].order_id) }) = 3

----------------------------------------------------------------------------
(* The session window of a user.                                           *)

\* the days a user's creation leaves before the end of the dataset, in
\* seconds
WindowLeft == END_DATE * Day - user_start

C11_NonEmptyWindow ==
    (ui >= 1 /\ (InSession \/ pc = "session")) =>
       /\ WindowLeft <= 0 => user_end = user_start + ExtendDays * Day
       /\ user_end > user_start
       /\ pc = "bounce" => t >= user_start /\ t < user_end

----------------------------------------------------------------------------
(* The funnel and the traffic source.                                      *)

\* the order the claim gives the sources by cart -> purchase probability
SourceRank(traffic) ==
    CASE traffic = "Display"  -> 1
      [] traffic = "Facebook" -> 2
      [] traffic = "Search"   -> 3
      [] traffic = "Organic"  -> 4
      [] traffic = "Email"    -> 5

\* what the claim compares of two events
Shown(ev) == <<ev.event_type, ev.created_at, ev.product_id>>

\* no more purchases for the source of user a than for the source of user b
\* when b's source ranks at least as high
PurchaseFollows(a, b) ==
    (/\ SourceRank(users[a].traffic_source)
           <= SourceRank(users[b].traffic_source)
     /\ Len(RowsOf(events, a)) = 5)
       => Len(RowsOf(events, b)) = 5

\* C12: the funnel depends on the traffic source only at cart -> purchase:
\* on the same draws, the sessions of two users that differ only in
\* traffic_source emit the same events (type, timestamp, product) up to and
\* including the cart event and differ at most in whether a purchase event
\* follows the cart; and on the same draw a purchase for one source implies
\* a purchase for every source that ranks higher (Display < Facebook <
\* Search < Organic < Email).
C12_TrafficOnlyAtPurchase ==
    ui = 2 =>
       LET r1 == RowsOf(events, 1)
           r2 == RowsOf(events, 2)
           m  == Min(Len(r1), Len(r2))
       IN  /\ m >= 1
           /\ \A k \in 1..Min(m, 4) : Shown(r1[k]) = Shown(r2[k])
           /\ Len(r1) # Len(r2) => m = 4 /\ Max(Len(r1), Len(r2)) = 5
           /\ PurchaseFollows(1, 2)
           /\ PurchaseFollows(2, 1)

\* C12 witness: on the same draws the session of a Search user ends in a
\* purchase and the session of a Facebook user ends at the cart, both carts
\* 270 seconds after the home event.
C12_Witness ==
    /\ ui = 2
    /\ users[1].traffic_source = "Search"
    /\ users[2].traffic_source = "Facebook"
    /\ Len(RowsOf(events, 1)) = 5
    /\ Len(RowsOf(events, 2)) = 4
    /\ RowsOf(events, 2)[4].created_at - RowsOf(events, 2)[1].created_at = 270
    /\ RowsOf(events, 2)[4].product_id = 2

\* the step actions and Simulate agree: the rows of the session a run of
\* the funnel has just ended are the rows Simulate gives for some draws
SimulateAgrees ==
    (pc = "events" /\ ui >= 1 /\ session_id = 2) =>
       LET rows == RowsOf(events, 1)
           gap(k) == IF k <= Len(rows)
                     THEN rows[k].created_at - rows[k - 1].created_at
                     ELSE 0
       IN  \E k \in GridEvents.fracs, rb, rc, rp, ra, ru \in {0, 99},
              row \in 1..Len(products) :
              rows = Simulate(user, 1, 1,
                              [k |-> k, bounce |-> rb, cat |-> rc, prd |-> rp,
                               cart |-> ra, pur |-> ru,
                               d |-> <<gap(2), gap(3), gap(4), gap(5)>>,
                               row |-> row])

----------------------------------------------------------------------------
(* Users and their sessions.                                               *)

UserIds == { users[i].user_id : i \in 1..Len(users) }

\* the positions of the home events of user id
HomesOf(id) ==
    { j \in 1..Len(events) :
        events[j].user_id = id /\ events[j].event_type = "home" }

\* C13: every user gets at least one session: when make_events has
\* completed, every user_id of the users table is on at least one home
\* event; and every event's user_id is a user_id of the users table (no
\* orphaned event row), at any point of the run.
C13_EveryUserHasSession ==
    /\ \A j \in 1..Len(events) : events[j].user_id \in UserIds
    /\ pc = "write_events" => \A id \in UserIds : HomesOf(id) # {}
    /\ pc = "events" => \A i \in 1..ui : HomesOf(users[i].user_id) # {}

\* C13 witness: make_events has completed on two users, the first with a
\* single session, which bounced, the second with two sessions.
C13_Witness ==
    /\ pc = "write_events"
    /\ Len(users) = 2
    /\ Cardinality(HomesOf(1)) = 1
    /\ Cardinality(HomesOf(2)) = 2
    /\ Len(events) >= 4
    /\ events[2].user_id = 2

----------------------------------------------------------------------------
(* References to the catalog.                                              *)

\* the rows of the products table that carry product_id id
CatalogRows(id) == { r \in 1..Len(products) : products[r].product_id = id }

\* id is a product_id of the catalog of product_count rows
InCatalog(id) ==
    /\ id \in 1..n_products
    /\ Cardinality(CatalogRows(id)) = 1

\* C14: no order item references a product_id outside 1..product_count:
\* every order_items.product_id, and every events.product_id that is not
\* null, is the product_id of exactly one row of the products table.
C14_ProductsInCatalog ==
    /\ \A k \in 1..Len(order_items) : InCatalog(order_items[k].product_id)
    /\ \A j \in 1..Len(events) :
          events[j].product_id # None => InCatalog(events[j].product_id)

\* C14 witness: the run has written everything, with an order item and an
\* event on the last product of a catalog of three, and an order of two
\* items.
C14_Witness ==
    /\ pc = "done"
    /\ n_products = 3
    /\ \E k \in 1..Len(order_items) : order_items[k].product_id = 3
    /\ \E j \in 1..Len(events) : events[j].product_id = 3
    /\ \E i \in 1..Len(orders) : orders[i].num_of_item = 2

----------------------------------------------------------------------------
(* Prices of the catalog.                                                  *)

\* an amount in ticks as whole cents, when it is a whole number of cents
Cents(x) == x \div 100

\* C15: for every generated product, with the prices taken as whole cents
\* after rounding, 9.99 <= retail_price <= 499.99 and cost < retail_price,
\* for every log-normal draw (the draws clamped at either bound included)
\* and every cost multiplier from 0.35 to 0.60.
C15_PriceBounds ==
    \A r \in 1..Len(products) :
       /\ products[r].retail_price % 100 = 0
       /\ products[r].cost % 100 = 0
       /\ Cents(products[r].retail_price) >= 999
       /\ Cents(products[r].retail_price) <= 49999
       /\ Cents(products[r].cost) < Cents(products[r].retail_price)

\* C15 witness: a catalog with a product clamped at 9.99 whose cost is
\* 0.60 of it (5.99), one clamped at 499.99 whose cost is 0.35 of it
\* (175.00), and one priced between the bounds.
C15_Witness ==
    \E a, b, c \in 1..Len(products) :
       /\ Cents(products[a].retail_price) = 999
       /\ Cents(products[a].cost) = 599
       /\ Cents(products[b].retail_price) = 49999
       /\ Cents(products[b].cost) = 17500
       /\ Cents(products[c].retail_price) = 3660

----------------------------------------------------------------------------
(* Users.                                                                  *)

\* C16: for every generated user, state is non-null if and only if country
\* is "United States".
C16_StateIffUS ==
    \A i \in 1..Len(users) :
       users[i].state # NoState <=> users[i].country = "United States"

\* C16 witness: make_users has returned a user of the United States, who
\* has a state, and a user of Canada, who has none.
C16_Witness ==
    /\ pc = "events"
    /\ \E a, b \in 1..Len(users) :
          /\ users[a].country = "United States"
          /\ users[a].state = "WI"
          /\ users[b].country = "Canada"
          /\ users[b].state = NoState

----------------------------------------------------------------------------
(* Identities.                                                             *)

\* the positions of the home events: one for each session simulated
Homes == { j \in 1..Len(events) : events[j].event_type = "home" }

\* C17: identities are sequential, without a gap or a reuse, on every path
\* of the session loop, the bounce path included: after any number of
\* sessions the event_ids are exactly 1..(number of events), in emission
\* order; the session_ids are exactly 1..(number of sessions); every
\* session_id belongs to one user only; the events of a session have
\* consecutive event_ids; and no session has two events of one event_type.
C17_SequentialIds ==
    /\ \A j \in 1..Len(events) : events[j].event_id = j
    /\ event_id = Len(events) + 1
    /\ SessionIds(events) = 1..Cardinality(Homes)
    /\ session_id = Cardinality(Homes) + (IF InSession THEN 0 ELSE 1)
    /\ \A sid \in SessionIds(events) :
          LET rows == RowsOf(events, sid)
          IN  /\ \A k \in 1..Len(rows) : rows[k].user_id = rows[1].user_id
              /\ \A k \in 2..Len(rows) :
                    rows[k].event_id = rows[k - 1].event_id + 1
              /\ \A k, l \in 1..Len(rows) :
                    k # l => rows[k].event_type # rows[l].event_type

\* C17 witness: make_events has returned three sessions of two users: one
\* that ended at home, then one that ran to the purchase, then one of the
\* second user.
C17_Witness ==
    /\ pc = "write_events"
    /\ Len(users) = 2
    /\ Cardinality(Homes) = 3
    /\ Len(RowsOf(events, 1)) = 1
    /\ Len(RowsOf(events, 2)) = 5
    /\ RowsOf(events, 2)[1].user_id = 1
    /\ RowsOf(events, 3)[1].user_id = 2
    /\ RowsOf(events, 3)[1].event_id = 7

=============================================================================
